---- MODULE Spec2Model ----
(***************************************************************************)
(* The MDF -> PyTorch exporter (modeci_mdf/interfaces/pytorch/exporter.py) *)
(* as a state machine.                                                     *)
(*                                                                         *)
(* Specification Spec: _generate_scripts_from_model and mdf_to_pytorch     *)
(* over a model of one or more graphs, followed by forward passes of the   *)
(* assembled Model class (the text generate_main_forward emits, read as a  *)
(* list of statements).                                                    *)
(***************************************************************************)
EXTENDS Integers, Sequences, FiniteSets, TLC

\* ------------------------------------------------------------- bounds
MaxNodes == 3
MaxEdges == 3
MaxGraphs == 2
MaxPasses == 2

\* ------------------------------------------------------------ helpers
Range(s) == {s[i] : i \in DOMAIN s}

RECURSIVE SumSeq(_)
SumSeq(s) == IF s = <<>> THEN 0 ELSE Head(s) + SumSeq(Tail(s))

RECURSIVE Flatten(_)
Flatten(ss) == IF ss = <<>> THEN <<>> ELSE Head(ss) \o Flatten(Tail(ss))

Perms(n) == {p \in [1..n -> 1..n] : \A i, j \in 1..n : i # j => p[i] # p[j]}

\* An optional value (None or x) is the empty set or {x}.
None == {}
Some(x) == {x}
The(o) == CHOOSE x \in o : TRUE

\* ------------------------------------------------------ the input IR
NodeIdPool == <<"A", "B", "C", "D", "E">>
GraphIdPool == <<"G1", "G2", "G3", "G4">>
WeightPool == {2}

\* graph.nodes of a graph with n nodes, in declaration order.
NodesOf(n) == SubSeq(NodeIdPool, 1, n)

\* An edge: sender and receiver are node ids of its graph; weight is
\* edge.parameters["weight"] when the edge declares one.
EdgesOver(n) ==
  [sender : Range(NodesOf(n)), receiver : Range(NodesOf(n)),
   weight : {None} \cup {Some(w) : w \in WeightPool}]

GraphsWith(id, n, e) ==
  {[id |-> id, nodes |-> NodesOf(n), edges |-> es] : es \in [1..e -> EdgesOver(n)]}

\* Edges the graphs of m hold in all.
EdgeCount(m) == SumSeq([i \in DOMAIN m |-> Len(m[i].edges)])

\* node.input_ports: a node has the input port an edge of its graph targets,
\* and none when no edge targets it.
InputPorts(g) == [n \in Range(g.nodes) |->
                    IF \E i \in DOMAIN g.edges : g.edges[i].receiver = n THEN 1 ELSE 0]

\* --------------------------------------------------------------- state
VARIABLES
  mdf_model,        \* the model handed to mdf_to_pytorch
  pc,               \* "input" | "compile" | "load" | "ready" | "forward" | "failed"
  gi,               \* index of the next graph of the outer loop (line 298)
  compiled,         \* index of the graph the last iteration compiled (0: none)
  graph,            \* the id the variable `graph` is bound to (Some id), None before the loop
  nodes,            \* local `nodes` of the last iteration
  edges,            \* local `edges` of the last iteration
  execution_order,  \* local `execution_order` of the last iteration
  d_e,              \* local `d_e` of the last iteration
  scripts,          \* the dict `scripts`: id -> script
  pending,          \* the script names mdf_to_pytorch has still to load
  models,           \* the dict `models`: id -> loaded Model instance
  cur,              \* the key of the instance whose forward is running
  val,              \* the val_<node> locals of the running forward
  ip,               \* the next call statement of the running forward
  invoked,          \* the node invocations of the current (or last) pass
  result,           \* the tuple the last forward pass returned
  passes,           \* forward passes completed
  err               \* the exception that ended the run, "" when none

gvars == <<mdf_model, pc, gi, compiled, graph, nodes, edges, execution_order, d_e,
           scripts, pending, models, cur, val, ip, invoked, result, passes, err>>

\* The synthesis of node units (specification SpecNode).
VARIABLES
  param_set,        \* the module-level set `param_set` (line 24)
  graph_input,      \* the module-level list `graph_input` (line 25)
  node,             \* the node handed to the last get_module_declaration_text call
  visit,            \* the order in which iterating param_set yields its ids
  unit,             \* the class text emitted for that node, read as a unit
  units,            \* get_module_declaration_text calls made so far
  broken,           \* an earlier unit of the script cannot be loaded
  npc,              \* "idle" | "synth" | "ready" | "failed"
  attrs,            \* the attributes self.<id> of the unit's instance
  execution_count,  \* self.execution_count of the unit's instance
  hist,             \* per invocation: the argument, the attributes after it, the output
  nerr              \* the exception that ended the run, "" when none

nvars == <<param_set, graph_input, node, visit, unit, units, broken, npc, attrs,
           execution_count, hist, nerr>>

vars == <<gvars, nvars>>

\* ------------------------------------------------ DependencyResolver
\* evaluable_graph.ordered_edges: the graph's edges in the sequence the
\* execution engine hands them over (any sequence of the same edges).
OrderedEdges(g) ==
  {[i \in 1..Len(g.edges) |-> g.edges[p[i]]] : p \in Perms(Len(g.edges))}

\* dict[k] = v on an insertion-ordered dict held as a sequence of items.
DictSet(d, k, v) ==
  IF \E i \in DOMAIN d : d[i].k = k
  THEN [i \in DOMAIN d |-> IF d[i].k = k THEN [k |-> k, v |-> v] ELSE d[i]]
  ELSE Append(d, [k |-> k, v |-> v])

\* The edges the inner loop of lines 312-319 visits: those of every graph of
\* the model, in order.
AllEdges(m) == Flatten([i \in DOMAIN m |-> m[i].edges])

\* d_e[receiver.id] of a receiver that is no node of the graph: KeyError.
DeKeyError(g, m) ==
  \E i \in DOMAIN AllEdges(m) : AllEdges(m)[i].receiver \notin Range(g.nodes)

RECURSIVE DeFold(_, _, _)
DeFold(d, es, n) ==
  IF es = <<>> THEN d
  ELSE DeFold(IF Head(es).receiver = n THEN DictSet(d, Head(es).sender, Head(es).weight) ELSE d,
              Tail(es), n)

\* d_e as lines 311-319 leave it.
BuildDE(g, m) == [n \in Range(g.nodes) |-> DeFold(<<>>, AllEdges(m), n)]

\* execution_order as lines 321-327 leave it.
ExecutionOrder(ns, es) ==
  IF es = <<>> THEN ns
  ELSE <<es[1].sender>> \o [i \in DOMAIN es |-> es[i].receiver]

\* ----------------------------------------------------- GraphAssembler
\* The call statements of the emitted forward, lines 167-179: d_e is walked
\* in the order of its keys, which is the declaration order of the nodes.
CallsOf(de, n) ==
  IF de[n] = <<>> THEN <<[node |-> n, pred |-> None, weight |-> None]>>
  ELSE [i \in DOMAIN de[n] |-> [node |-> n, pred |-> Some(de[n][i].k), weight |-> de[n][i].v]]

generate_main_forward(ns, order, de) ==
  [zeros |-> order,
   calls |-> Flatten([i \in DOMAIN ns |-> CallsOf(de, ns[i])]),
   ret   |-> order]

build_script(g, ns, order, de) ==
  [src |-> g, nodes |-> ns, input_ports |-> InputPorts(g),
   forward |-> generate_main_forward(ns, order, de),
   single |-> (Len(ns) = 1)]

\* The value a node's unit returns: a unit without input port returns its
\* constant, a unit with one returns the value it is given.
SourceValue == 3
NodeForward(arg) == IF arg = None THEN SourceValue ELSE The(arg)

\* What stops the emitted script from loading: the tail emitted for a graph
\* of one node (lines 263-265) names `nodes`, which the script never defines;
\* a call statement reads a val_<node> the forward never assigns, or gives a
\* unit an argument its forward does not take (or none where it takes one).
ScriptError(s) ==
  \/ s.single
  \/ \E i \in DOMAIN s.forward.calls :
       LET c == s.forward.calls[i] IN
         \/ c.node \notin Range(s.forward.zeros)
         \/ c.pred \notin SUBSET Range(s.forward.zeros)
         \/ (c.pred # None) # (s.input_ports[c.node] = 1)

\* ------------------------------------------------------------ actions
NoFun == [x \in {} |-> 0]

GInit ==
  /\ mdf_model = <<>>
  /\ pc = "input"
  /\ gi = 1
  /\ compiled = 0
  /\ graph = None
  /\ nodes = <<>>
  /\ edges = <<>>
  /\ execution_order = <<>>
  /\ d_e = NoFun
  /\ scripts = NoFun
  /\ pending = {}
  /\ models = NoFun
  /\ cur = None
  /\ val = NoFun
  /\ ip = 0
  /\ invoked = <<>>
  /\ result = <<>>
  /\ passes = 0
  /\ err = ""

\* The caller's model gains a graph (load_mdf, line 391): the graphs of a
\* model carry distinct ids and at most MaxEdges edges in all.
AddGraph ==
  /\ pc = "input"
  /\ Len(mdf_model) < MaxGraphs
  /\ \E n \in 1..MaxNodes, e \in 0..(MaxEdges - EdgeCount(mdf_model)) :
       \E g \in GraphsWith(GraphIdPool[Len(mdf_model) + 1], n, e) :
         mdf_model' = Append(mdf_model, g)
  /\ UNCHANGED <<pc, gi, compiled, graph, nodes, edges, execution_order, d_e, scripts,
                 pending, models, cur, val, ip, invoked, result, passes, err>>
  /\ UNCHANGED nvars

\* One iteration of the loop of line 298, on graph gi.  The inner loop of
\* line 312 rebinds `graph`: after it, `graph` is the last graph of the model.
CompileGraph ==
  /\ pc \in {"input", "compile"}
  /\ gi <= Len(mdf_model)
  /\ LET g == mdf_model[gi] IN
       IF DeKeyError(g, mdf_model)
       THEN /\ pc' = "failed"
            /\ err' = "KeyError"
            /\ nodes' = g.nodes
            /\ graph' = Some(mdf_model[Len(mdf_model)].id)
            /\ UNCHANGED <<gi, compiled, edges, execution_order, d_e, scripts, pending>>
       ELSE \E oe \in OrderedEdges(g) :
              LET order == ExecutionOrder(g.nodes, oe)
                  de == BuildDE(g, mdf_model)
                  key == mdf_model[Len(mdf_model)].id
                  script == build_script(g, g.nodes, order, de)
              IN /\ nodes' = g.nodes
                 /\ edges' = oe
                 /\ execution_order' = order
                 /\ d_e' = de
                 /\ graph' = Some(key)
                 /\ scripts' = [k \in DOMAIN scripts \cup {key} |->
                                  IF k = key THEN script ELSE scripts[k]]
                 /\ compiled' = gi
                 /\ gi' = gi + 1
                 /\ IF gi = Len(mdf_model)
                    THEN pc' = "load" /\ pending' = DOMAIN scripts \cup {key}
                    ELSE pc' = "compile" /\ pending' = pending
                 /\ err' = err
  /\ UNCHANGED <<mdf_model, models, cur, val, ip, invoked, result, passes>>
  /\ UNCHANGED nvars

\* One iteration of the loop of mdf_to_pytorch (lines 377-381).
LoadScript ==
  /\ pc = "load"
  /\ \E k \in pending :
       IF ScriptError(scripts[k])
       THEN /\ pc' = "failed"
            /\ err' = "ScriptError"
            /\ UNCHANGED <<models, pending>>
       ELSE /\ models' = [j \in DOMAIN models \cup {k} |->
                            IF j = k
                            THEN [script |-> scripts[k],
                                  execution_count |-> [n \in Range(scripts[k].nodes) |-> 0]]
                            ELSE models[j]]
            /\ pending' = pending \ {k}
            /\ pc' = IF pending = {k} THEN "ready" ELSE "load"
            /\ err' = err
  /\ UNCHANGED <<mdf_model, gi, compiled, graph, nodes, edges, execution_order, d_e,
                 scripts, cur, val, ip, invoked, result, passes>>
  /\ UNCHANGED nvars

\* Model.forward, lines 164-165: every val_<node> of the order starts at zero.
ForwardBegin ==
  /\ pc = "ready"
  /\ passes < MaxPasses
  /\ \E k \in DOMAIN models :
       /\ cur' = Some(k)
       /\ val' = [n \in Range(models[k].script.forward.zeros) |-> 0]
  /\ ip' = 1
  /\ invoked' = <<>>
  /\ pc' = "forward"
  /\ UNCHANGED <<mdf_model, gi, compiled, graph, nodes, edges, execution_order, d_e,
                 scripts, pending, models, result, passes, err>>
  /\ UNCHANGED nvars

\* One call statement, lines 169 / 175 / 178: the unit is invoked (its
\* execution counter advances by one) and its result is added to val_<node>.
ForwardCall ==
  /\ pc = "forward"
  /\ LET k == The(cur)
         f == models[k].script.forward
     IN /\ ip <= Len(f.calls)
        /\ LET c == f.calls[ip]
               arg == IF c.pred = None THEN None
                      ELSE IF c.weight = None THEN Some(val[The(c.pred)])
                      ELSE Some(val[The(c.pred)] * The(c.weight))
               out == NodeForward(arg)
           IN /\ val' = [val EXCEPT ![c.node] = @ + out]
              /\ models' = [models EXCEPT ![k].execution_count[c.node] = @ + 1]
              /\ invoked' = Append(invoked, [node |-> c.node, pred |-> c.pred,
                                             weight |-> c.weight, arg |-> arg, out |-> out])
  /\ ip' = ip + 1
  /\ UNCHANGED <<mdf_model, pc, gi, compiled, graph, nodes, edges, execution_order, d_e,
                 scripts, pending, cur, result, passes, err>>
  /\ UNCHANGED nvars

\* The return statement, lines 181-184.
ForwardReturn ==
  /\ pc = "forward"
  /\ LET f == models[The(cur)].script.forward
     IN /\ ip > Len(f.calls)
        /\ result' = [i \in DOMAIN f.ret |-> val[f.ret[i]]]
  /\ passes' = passes + 1
  /\ pc' = "ready"
  /\ UNCHANGED <<mdf_model, gi, compiled, graph, nodes, edges, execution_order, d_e,
                 scripts, pending, models, cur, val, ip, invoked, err>>
  /\ UNCHANGED nvars

GNext == AddGraph \/ CompileGraph \/ LoadScript \/ ForwardBegin \/ ForwardCall \/ ForwardReturn

\* ==================================================================
\* NodeModuleSynthesizer and ExpressionTranslator (specification SpecNode)
\* ==================================================================
MaxParams == 4
MaxUnits == 2
MaxInvokes == 2

\* A text is a sequence of characters.  The texts of the IR in use:
SelfDot == <<"s", "e", "l", "f", ".">>
Zero == <<"0">>
Digits == <<"0", "1", "2", "3", "4", "5", "6", "7", "8", "9">>
InputPool == {1, 2}

\* ---------------------------------------------------- text operations
\* Python's `t in s` on strings.
Contains(s, t) ==
  \E i \in 1..(Len(s) - Len(t) + 1) : SubSeq(s, i, i + Len(t) - 1) = t

\* Python's s.replace(old, new): every occurrence, left to right.
RECURSIVE Replace(_, _, _)
Replace(s, old, new) ==
  IF Len(s) < Len(old) THEN s
  ELSE IF SubSeq(s, 1, Len(old)) = old
       THEN new \o Replace(SubSeq(s, Len(old) + 1, Len(s)), old, new)
       ELSE <<Head(s)>> \o Replace(Tail(s), old, new)

\* sym (lines 127-131): ids is param_set in the order its iteration yields.
RECURSIVE sym(_, _)
sym(value, ids) ==
  IF ids = <<>> THEN value
  ELSE sym(IF Contains(value, Head(ids)) THEN Replace(value, Head(ids), SelfDot \o Head(ids))
           ELSE value,
           Tail(ids))

\* func_args (lines 134-138): arg_dict is the dict's items in insertion order.
RECURSIVE func_args(_, _)
func_args(exp, arg_dict) ==
  IF arg_dict = <<>> THEN exp
  ELSE func_args(IF Contains(exp, Head(arg_dict).k) THEN Replace(exp, Head(arg_dict).k, Head(arg_dict).v)
                 ELSE exp,
                 Tail(arg_dict))

\* The named-function registry: one entry, "add".
mdf_functions == [add |-> [expression_string |-> <<"a", " ", "+", " ", "b">>]]

\* The module-level set `not_self` (line 23): nothing ever adds to it.
not_self == {}

\* --------------------------------------------- evaluating emitted text
RECURSIVE TrimLeft(_)
TrimLeft(s) == IF s # <<>> /\ Head(s) = " " THEN TrimLeft(Tail(s)) ELSE s

RECURSIVE TrimRight(_)
TrimRight(s) ==
  IF s # <<>> /\ s[Len(s)] = " " THEN TrimRight(SubSeq(s, 1, Len(s) - 1)) ELSE s

\* The terms of a sum a + b + ..., each without the blanks around it.
RECURSIVE Terms(_, _)
Terms(s, term) ==
  IF s = <<>> THEN <<TrimRight(TrimLeft(term))>>
  ELSE IF Head(s) = "+" THEN <<TrimRight(TrimLeft(term))>> \o Terms(Tail(s), <<>>)
  ELSE Terms(Tail(s), Append(term, Head(s)))

IsNumber(t) == t # <<>> /\ \A i \in DOMAIN t : t[i] \in Range(Digits)

DigitValue(c) == (CHOOSE i \in DOMAIN Digits : Digits[i] = c) - 1

RECURSIVE Number(_)
Number(t) ==
  IF Len(t) = 1 THEN DigitValue(t[1])
  ELSE 10 * Number(SubSeq(t, 1, Len(t) - 1)) + DigitValue(t[Len(t)])

IsAttrRef(t, names) ==
  /\ Len(t) > Len(SelfDot)
  /\ SubSeq(t, 1, Len(SelfDot)) = SelfDot
  /\ SubSeq(t, Len(SelfDot) + 1, Len(t)) \in names

\* Every term of the text is a number, an attribute the instance has or a
\* local that is assigned: what the runtime needs to load the statement.
Resolves(text, attrNames, localNames) ==
  \A i \in DOMAIN Terms(text, <<>>) :
    LET t == Terms(text, <<>>)[i] IN
      IsNumber(t) \/ IsAttrRef(t, attrNames) \/ t \in localNames

TermValue(t, at, lo) ==
  IF IsNumber(t) THEN Number(t)
  ELSE IF t \in DOMAIN lo THEN lo[t]
  ELSE at[SubSeq(t, Len(SelfDot) + 1, Len(t))]

Eval(text, at, lo) ==
  SumSeq([i \in DOMAIN Terms(text, <<>>) |-> TermValue(Terms(text, <<>>)[i], at, lo)])

\* ------------------------------------------------------ the input IR
\* A parameter: an absent value, default or derivative is the empty text,
\* an absent function the empty name; stateful is what is_stateful() says.
Param(id, stateful, value, div, td, fn, args) ==
  [id |-> id, stateful |-> stateful, value |-> value, default_initial_value |-> div,
   time_derivative |-> td, function |-> fn, args |-> args]

ParamPool ==
  << Param(<<"x">>, FALSE, <<"2">>, <<>>, <<>>, "", <<>>),
     Param(<<"y">>, FALSE, <<"5">>, <<>>, <<>>, "", <<>>),
     Param(<<"e">>, FALSE, <<"1">>, <<>>, <<>>, "", <<>>),
     Param(<<"p">>, TRUE, <<>>, Zero, <<"3">>, "", <<>>),
     Param(<<"p">>, TRUE, <<"i">>, Zero, <<>>, "", <<>>),
     Param(<<"p">>, TRUE, <<"p", " ", "+", " ", "1">>, Zero, <<>>, "", <<>>),
     Param(<<"z">>, FALSE, <<>>, <<>>, <<>>, "add",
           <<[k |-> <<"a">>, v |-> <<"x">>], [k |-> <<"b">>, v |-> <<"y">>]>>),
     Param(<<"u">>, FALSE, <<>>, <<>>, <<>>, "nosuch", <<>>) >>

\* The entries of the pool at the places S, in the pool's order.
RECURSIVE Pick(_, _)
Pick(S, i) ==
  IF i > Len(ParamPool) THEN <<>>
  ELSE (IF i \in S THEN <<ParamPool[i]>> ELSE <<>>) \o Pick(S, i + 1)

ParamLists ==
  {Pick(S, 1) : S \in {T \in SUBSET DOMAIN ParamPool :
                         /\ Cardinality(T) <= MaxParams
                         /\ \A i, j \in T : ParamPool[i].id = ParamPool[j].id => i = j}}

\* A node: its output port names its last parameter.
Nodes ==
  {[parameters |-> ps, input_ports |-> ports, functions |-> fs,
    output_ports |-> <<[value |-> IF ps = <<>> THEN <<"i">> ELSE ps[Len(ps)].id]>>]
     : ps \in ParamLists, ports \in {<<>>, <<[id |-> <<"i">>]>>}, fs \in {<<>>, <<"f">>}}

\* --------------------------------------------- get_module_declaration_text
\* The default of a parameter of __init__ (lines 64-76).
InitText(p) ==
  IF ~p.stateful THEN p.value
  ELSE IF p.value # <<>> THEN Zero
  ELSE p.default_initial_value

\* Mutants of StatefulStatement: a derivative assigned instead of
\* accumulated, and a direct value accumulated instead of assigned.
StatefulStatementAssign(p, ids) ==
  IF p.value # <<>> THEN <<[kind |-> "set", target |-> p.id, expr |-> sym(p.value, ids)]>>
  ELSE IF p.time_derivative # <<>>
       THEN <<[kind |-> "set", target |-> p.id, expr |-> sym(p.time_derivative, ids)]>>
  ELSE <<>>

StatefulStatementAccumulate(p, ids) ==
  IF p.value # <<>> THEN <<[kind |-> "acc", target |-> p.id, expr |-> sym(p.value, ids)]>>
  ELSE IF p.time_derivative # <<>>
       THEN <<[kind |-> "acc", target |-> p.id, expr |-> sym(p.time_derivative, ids)]>>
  ELSE <<>>

\* The statement the forward holds for a stateful parameter (lines 99-107):
\* an assignment for a direct value, an accumulation for a derivative.
StatefulStatement(p, ids) ==
  IF p.value # <<>> THEN <<[kind |-> "set", target |-> p.id, expr |-> sym(p.value, ids)]>>
  ELSE IF p.time_derivative # <<>>
       THEN <<[kind |-> "acc", target |-> p.id, expr |-> sym(p.time_derivative, ids)]>>
  ELSE <<>>

\* Mutant of OwnStatements: every parameter that is not function-bound is
\* advanced by its expression, stateful or not.
OwnStatementsUnguarded(p, ids) ==
  IF p.function = ""
  THEN <<[kind |-> "acc", target |-> p.id,
          expr |-> sym(IF p.value # <<>> THEN p.value ELSE p.time_derivative, ids)]>>
  ELSE <<>>

\* The guard of line 99: only a stateful parameter that is not function-bound
\* is written by the forward.
OwnStatements(p, ids) ==
  IF p.stateful /\ p.function = "" THEN StatefulStatement(p, ids) ELSE <<>>

\* The statements the loop of lines 98-116 emits for the parameters ps; exp
\* is the local `exp` (None while it is unbound).  A function that is not in
\* the registry leaves `exp` as it was: the statement reuses the expression
\* of the function parameter before it, and with none before it the
\* concatenation of line 116 raises UnboundLocalError.
RECURSIVE ForwardStatements(_, _, _)
ForwardStatements(ps, ids, exp) ==
  IF ps = <<>> THEN [stmts |-> <<>>, error |-> ""]
  ELSE LET p == Head(ps)
           own == OwnStatements(p, ids)
       IN IF p.function = ""
          THEN LET rest == ForwardStatements(Tail(ps), ids, exp)
               IN [stmts |-> own \o rest.stmts, error |-> rest.error]
          ELSE LET exp2 == IF p.function \in DOMAIN mdf_functions
                           THEN Some(sym(func_args(mdf_functions[p.function].expression_string,
                                                   p.args), ids))
                           ELSE exp
               IN IF exp2 = None THEN [stmts |-> <<>>, error |-> "UnboundLocalError"]
                  ELSE LET rest == ForwardStatements(Tail(ps), ids, exp2)
                       IN [stmts |-> <<[kind |-> "local", target |-> p.id, expr |-> The(exp2)]>>
                                     \o rest.stmts,
                           error |-> rest.error]

\* The non-function parameters of ps, in order.
RECURSIVE OwnParams(_)
OwnParams(ps) ==
  IF ps = <<>> THEN <<>>
  ELSE (IF Head(ps).function = "" THEN <<Head(ps)>> ELSE <<>>) \o OwnParams(Tail(ps))

\* param_set after the loop of lines 59-63.
ParamSetAfter(set, nd) ==
  IF nd.parameters # <<>> /\ nd.functions = <<>>
  THEN set \cup {OwnParams(nd.parameters)[i].id : i \in DOMAIN OwnParams(nd.parameters)}
  ELSE set

\* graph_input after the loop of lines 59-61.
RECURSIVE InputLevels(_)
InputLevels(ps) ==
  IF ps = <<>> THEN <<>>
  ELSE (IF Head(ps).id = <<"i", "n", "p", "u", "t", "_", "l", "e", "v", "e", "l">>
        THEN <<Head(ps).value>> ELSE <<>>) \o InputLevels(Tail(ps))

\* The class text of a node, read as a unit; ids is param_set (as the loop
\* of lines 59-63 left it) in the order its iteration yields.
get_module_declaration_text(nd, ids) ==
  IF nd.parameters = <<>> \/ nd.functions # <<>>
  THEN [has_body |-> FALSE, init |-> <<>>, arg |-> <<>>, stmts |-> <<>>, ret |-> <<>>,
        error |-> ""]
  ELSE LET own == OwnParams(nd.parameters)
           fwd == ForwardStatements(nd.parameters, ids, None)
       IN [has_body |-> TRUE,
           init |-> [i \in DOMAIN own |-> [id |-> own[i].id, text |-> InitText(own[i])]],
           arg |-> Flatten([i \in DOMAIN nd.input_ports |-> nd.input_ports[i].id]),
           stmts |-> fwd.stmts,
           ret |-> IF nd.output_ports[1].value \in not_self THEN nd.output_ports[1].value
                   ELSE sym(nd.output_ports[1].value, ids),
           error |-> fwd.error]

\* The orders in which iterating the set S can yield its elements.
Orders(S) ==
  {s \in [1..Cardinality(S) -> S] : \A i, j \in DOMAIN s : i # j => s[i] # s[j]}

\* The locals assigned before statement i of the unit: the forward's
\* argument and the targets of the "local" statements before it.
LocalsBefore(u, i) ==
  (IF u.arg = <<>> THEN {} ELSE {u.arg})
  \cup {u.stmts[j].target : j \in {k \in 1..(i - 1) : u.stmts[k].kind = "local"}}

\* What stops the emitted class from loading: a class without a body, a
\* default that is no number, a statement that names what is not defined.
UnitError(u) ==
  \/ ~u.has_body
  \/ \E i \in DOMAIN u.init : ~IsNumber(u.init[i].text)
  \/ \E i \in DOMAIN u.stmts :
       ~Resolves(u.stmts[i].expr, {u.init[j].id : j \in DOMAIN u.init}, LocalsBefore(u, i))
  \/ ~Resolves(u.ret, {u.init[j].id : j \in DOMAIN u.init}, LocalsBefore(u, Len(u.stmts) + 1))

\* The statements of the unit's forward, run in order on the instance's
\* attributes at and its locals lo.
RECURSIVE Exec(_, _, _)
Exec(stmts, at, lo) ==
  IF stmts = <<>> THEN [attrs |-> at, locals |-> lo]
  ELSE LET s == Head(stmts)
           v == Eval(s.expr, at, lo)
       IN IF s.kind = "set" THEN Exec(Tail(stmts), [at EXCEPT ![s.target] = v], lo)
          ELSE IF s.kind = "acc" THEN Exec(Tail(stmts), [at EXCEPT ![s.target] = @ + v], lo)
          ELSE Exec(Tail(stmts), at,
                    [n \in DOMAIN lo \cup {s.target} |-> IF n = s.target THEN v ELSE lo[n]])

\* ------------------------------------------------------------ actions
NoUnit == [has_body |-> FALSE, init |-> <<>>, arg |-> <<>>, stmts |-> <<>>, ret |-> <<>>,
           error |-> ""]

NInit ==
  /\ param_set = {}
  /\ graph_input = <<>>
  /\ node = None
  /\ visit = <<>>
  /\ unit = NoUnit
  /\ units = 0
  /\ broken = FALSE
  /\ npc = "idle"
  /\ attrs = NoFun
  /\ execution_count = 0
  /\ hist = <<>>
  /\ nerr = ""

\* One iteration of the loop of build_script (lines 230-245) for a node
\* that is not the last of the script: its class is emitted, and what stays
\* of the call is param_set, graph_input and whether the class can load.
SynthesizeEarlier ==
  /\ npc = "idle"
  /\ units + 1 < MaxUnits
  /\ \E nd \in Nodes :
       LET set == ParamSetAfter(param_set, nd) IN
         \E ids \in Orders(set) :
           LET u == get_module_declaration_text(nd, ids) IN
             /\ param_set' = set
             /\ graph_input' = IF u.has_body THEN graph_input \o InputLevels(nd.parameters)
                               ELSE graph_input
             /\ broken' = (broken \/ UnitError(u))
             /\ IF u.error # "" THEN npc' = "failed" /\ nerr' = u.error
                ELSE npc' = npc /\ nerr' = nerr
  /\ units' = units + 1
  /\ UNCHANGED <<node, visit, unit, attrs, execution_count, hist>>
  /\ UNCHANGED gvars

\* The last iteration of that loop: the class of the script's last node is
\* emitted.
SynthesizeNode ==
  /\ npc = "idle"
  /\ units < MaxUnits
  /\ \E nd \in Nodes :
       LET set == ParamSetAfter(param_set, nd) IN
         \E ids \in Orders(set) :
           LET u == get_module_declaration_text(nd, ids) IN
             /\ node' = Some(nd)
             /\ param_set' = set
             /\ graph_input' = IF u.has_body THEN graph_input \o InputLevels(nd.parameters)
                               ELSE graph_input
             /\ visit' = ids
             /\ unit' = u
             /\ IF u.error # "" THEN npc' = "failed" /\ nerr' = u.error
                ELSE npc' = "synth" /\ nerr' = nerr
  /\ units' = units + 1
  /\ UNCHANGED <<broken, attrs, execution_count, hist>>
  /\ UNCHANGED gvars

\* The script is loaded (lines 356-360) and the last unit instantiated with
\* the defaults of its __init__ (line 268).
LoadUnits ==
  /\ npc = "synth"
  /\ IF broken \/ UnitError(unit)
     THEN /\ npc' = "failed"
          /\ nerr' = "ScriptError"
          /\ UNCHANGED <<attrs, execution_count>>
     ELSE /\ npc' = "ready"
          /\ attrs' = [n \in {unit.init[j].id : j \in DOMAIN unit.init} |->
                         Number((CHOOSE e \in Range(unit.init) : e.id = n).text)]
          /\ execution_count' = 0
          /\ nerr' = nerr
  /\ UNCHANGED <<param_set, graph_input, node, visit, unit, units, broken, hist>>
  /\ UNCHANGED gvars

\* One call of the unit's forward: the counter advances by one (lines 94-96),
\* the statements run, the output port's expression is returned.
Invoke ==
  /\ npc = "ready"
  /\ execution_count < MaxInvokes
  /\ \E a \in (IF unit.arg = <<>> THEN {None} ELSE {Some(x) : x \in InputPool}) :
       LET lo0 == IF a = None THEN NoFun ELSE [n \in {unit.arg} |-> The(a)]
           r == Exec(unit.stmts, attrs, lo0)
       IN /\ attrs' = r.attrs
          /\ hist' = Append(hist, [arg |-> a, attrs |-> r.attrs,
                                   out |-> Eval(unit.ret, r.attrs, r.locals)])
  /\ execution_count' = execution_count + 1
  /\ UNCHANGED <<param_set, graph_input, node, visit, unit, units, broken, npc, nerr>>
  /\ UNCHANGED gvars

NNext == SynthesizeEarlier \/ SynthesizeNode \/ LoadUnits \/ Invoke

Init == GInit /\ NInit

Spec == Init /\ [][GNext]_vars

SpecNode == Init /\ [][NNext]_vars

\* ------------------------------------------------- claims C1 .. C6
InDegree(g, n) == Cardinality({i \in DOMAIN g.edges : g.edges[i].receiver = n})
Successors(g, S) == {g.edges[i].receiver : i \in {j \in DOMAIN g.edges : g.edges[j].sender \in S}}

RECURSIVE ReachableIn(_, _, _)
ReachableIn(g, S, k) ==
  IF k = 0 THEN S ELSE ReachableIn(g, S \cup Successors(g, S), k - 1)

\* The edges of g contain a cycle.
Cyclic(g) ==
  \E n \in Range(g.nodes) : n \in ReachableIn(g, Successors(g, {n}), Len(g.nodes))

\* list.index: the first place of x in s.
IndexOf(s, x) == CHOOSE i \in DOMAIN s : s[i] = x /\ \A j \in 1..(i - 1) : s[j] # x

CountOf(s, x) == Cardinality({i \in DOMAIN s : s[i] = x})

Max(a, b) == IF a >= b THEN a ELSE b

\* The nodes of g no edge of g targets.
RootNodes(g) == {n \in Range(g.nodes) : InDegree(g, n) = 0}

\* es hands every edge over after its sender was evaluated: the sender is a
\* root node or the receiver of an earlier edge.
RECURSIVE SenderFirst(_, _)
SenderFirst(es, evaluated) ==
  \/ es = <<>>
  \/ /\ Head(es).sender \in evaluated
     /\ SenderFirst(Tail(es), evaluated \cup {Head(es).receiver})

\* No two edges of g join the same sender to the same receiver.
Simple(g) ==
  \A i, j \in DOMAIN g.edges :
    (g.edges[i].sender = g.edges[j].sender /\ g.edges[i].receiver = g.edges[j].receiver) => i = j

\* The graphs of the model are acyclic and simple.
PlainModel == \A i \in DOMAIN mdf_model : ~Cyclic(mdf_model[i]) /\ Simple(mdf_model[i])

\* The last iteration compiled a graph and was handed its edges sender first.
CompiledSenderFirst ==
  /\ compiled > 0
  /\ SenderFirst(edges, RootNodes(mdf_model[compiled]))

\* A forward pass of a loaded artifact has returned.
PassReturned == pc = "ready" /\ passes > 0

\* C1: for every acyclic graph, the execution order the exporter computes
\* holds the sender of each edge at a smaller index than its receiver (here
\* even when the engine hands the edges over sender first).
C1_SendersPrecedeReceivers ==
  (CompiledSenderFirst /\ ~Cyclic(mdf_model[compiled])) =>
    \A i \in DOMAIN mdf_model[compiled].edges :
      LET e == mdf_model[compiled].edges[i] IN
        /\ e.sender \in Range(execution_order)
        /\ e.receiver \in Range(execution_order)
        /\ IndexOf(execution_order, e.sender) < IndexOf(execution_order, e.receiver)

\* C2: a graph whose edges contain a cycle is never given an execution
\* order or a script: its compilation ends in the CyclicGraph failure.
C2_CycleFailsCompilation ==
  compiled > 0 =>
    /\ ~Cyclic(mdf_model[compiled])
    /\ \A k \in DOMAIN scripts : ~Cyclic(scripts[k].src)

\* C3: once the scripts are generated, the mapping has one entry per graph,
\* keyed by the graph's own id, and the entry of graph g is built from g's
\* nodes and g's edges alone.
C3_OneEntryPerGraph ==
  pc \in {"load", "ready", "forward"} =>
    /\ DOMAIN scripts = {mdf_model[i].id : i \in DOMAIN mdf_model}
    /\ \A i \in DOMAIN mdf_model :
         LET g == mdf_model[i]
             s == scripts[g.id]
         IN /\ s.src = g
            /\ s.nodes = g.nodes
            /\ s.forward.calls =
                 Flatten([j \in DOMAIN g.nodes |-> CallsOf(BuildDE(g, <<g>>), g.nodes[j])])

\* C4: a forward pass returns one value per node of the graph: every node
\* is listed exactly once in the returned sequence (here for a model of one
\* acyclic, simple graph whose edges were handed over sender first).
C4_OneValuePerNode ==
  (PassReturned /\ Len(mdf_model) = 1 /\ PlainModel /\ CompiledSenderFirst) =>
    LET s == models[The(cur)].script IN
      /\ Len(result) = Len(s.nodes)
      /\ \A n \in Range(s.nodes) : CountOf(s.forward.ret, n) = 1

\* C5: in one forward pass a node with k >= 1 incoming edges is invoked k
\* times and a node with none once; after n passes its execution counter is
\* n * max(k, 1) (here for acyclic, simple graphs).
C5_InvocationsPerPass ==
  (PassReturned /\ PlainModel /\ CompiledSenderFirst) =>
    LET a == models[The(cur)]
        g == a.script.src
    IN \A n \in Range(g.nodes) :
         LET m == Max(InDegree(g, n), 1) IN
           /\ CountOf([i \in DOMAIN invoked |-> invoked[i].node], n) = m
           /\ a.execution_count[n] = passes * m

\* C6: after a forward pass the running value of a receiver is the sum, over
\* its incoming edges s->r, of the unit's result for the sender's value
\* times the edge's weight (the sender's value itself when the edge declares
\* no weight); A->B with weight 2 and source value 3 gives 6 for B (here for
\* a model of one acyclic, simple graph).
C6_WeightedContributions ==
  (PassReturned /\ Len(mdf_model) = 1 /\ PlainModel /\ CompiledSenderFirst) =>
    LET g == models[The(cur)].script.src IN
      \A r \in Range(g.nodes) :
        InDegree(g, r) > 0 =>
          val[r] = SumSeq([i \in DOMAIN g.edges |->
                     LET e == g.edges[i] IN
                       IF e.receiver # r THEN 0
                       ELSE IF e.weight = None THEN NodeForward(Some(val[e.sender]))
                       ELSE NodeForward(Some(val[e.sender] * The(e.weight)))])
\* ------------------------------------------------- claims C7 .. C10
\* The parameters of the node whose unit is instantiated.
NodeParams == IF node = None THEN {} ELSE Range(The(node).parameters)

IsConstant(p) == ~p.stateful /\ p.function = ""
IsDerivative(p) == p.stateful /\ p.function = "" /\ p.value = <<>> /\ p.time_derivative # <<>>
IsDirect(p) == p.stateful /\ p.function = "" /\ p.value # <<>>

\* The attributes of the instance before invocation i.
AttrsBefore(i) ==
  IF i > 1 THEN hist[i - 1].attrs
  ELSE [n \in {unit.init[j].id : j \in DOMAIN unit.init} |->
          Number((CHOOSE e \in Range(unit.init) : e.id = n).text)]

\* The locals the forward starts invocation i with: its argument.
ArgLocals(i) ==
  IF hist[i].arg = None THEN NoFun ELSE [n \in {unit.arg} |-> The(hist[i].arg)]

\* C7: a stateful parameter with the derivative expression k (a number) and
\* initial state 0 holds n * k after n invocations of its unit, for every n.
C7_DerivativeAccumulates ==
  npc = "ready" =>
    \A p \in NodeParams :
      (IsDerivative(p) /\ IsNumber(p.time_derivative) /\ p.default_initial_value = Zero) =>
        /\ attrs[p.id] = execution_count * Number(p.time_derivative)
        /\ \A i \in DOMAIN hist : hist[i].attrs[p.id] = i * Number(p.time_derivative)

\* Witness of C7: a unit with such a parameter was invoked twice or more.
C7_Witness ==
  /\ npc = "ready"
  /\ execution_count >= 2
  /\ \E p \in NodeParams :
       /\ IsDerivative(p) /\ IsNumber(p.time_derivative) /\ p.default_initial_value = Zero
       /\ Number(p.time_derivative) > 0
       /\ attrs[p.id] > Number(p.time_derivative)

ReadsOnly(text, names) ==
  \A i \in DOMAIN Terms(text, <<>>) :
    IsNumber(Terms(text, <<>>)[i]) \/ Terms(text, <<>>)[i] \in names

C9_ConstantsKeepValue ==
  npc = "ready" =>
    \A p \in NodeParams :
      IsConstant(p) =>
        /\ attrs[p.id] = Number(p.value)
        /\ \A i \in DOMAIN hist : hist[i].attrs[p.id] = Number(p.value)

\* Witness of C9: a unit with a constant and a stateful parameter was
\* invoked twice or more, and the stateful parameter moved.
C9_Witness ==
  /\ npc = "ready"
  /\ execution_count >= 2
  /\ \E p, q \in NodeParams :
       /\ IsConstant(p)
       /\ q.stateful /\ q.function = ""
       /\ attrs[q.id] # AttrsBefore(1)[q.id]

\* Whole-token rewriting: the text split into identifiers and single other
\* characters.
IdChars ==
  {"a", "b", "c", "d", "e", "f", "g", "h", "i", "j", "k", "l", "m", "n", "o", "p", "q",
   "r", "s", "t", "u", "v", "w", "x", "y", "z", "_"} \cup Range(Digits)

RECURSIVE Tokens(_, _)
Tokens(s, tok) ==
  IF s = <<>> THEN (IF tok = <<>> THEN <<>> ELSE <<tok>>)
  ELSE IF Head(s) \in IdChars THEN Tokens(Tail(s), Append(tok, Head(s)))
  ELSE (IF tok = <<>> THEN <<>> ELSE <<tok>>) \o <<<<Head(s)>>>> \o Tokens(Tail(s), <<>>)

\* Each token that is an owned id becomes self.<id>.
WholeTokenSym(value, owned) ==
  Flatten([i \in DOMAIN Tokens(value, <<>>) |->
             IF Tokens(value, <<>>)[i] \in owned THEN SelfDot \o Tokens(value, <<>>)[i]
             ELSE Tokens(value, <<>>)[i]])

\* Each token that is a placeholder becomes the value bound to it.
WholeTokenArgs(exp, arg_dict) ==
  Flatten([i \in DOMAIN Tokens(exp, <<>>) |->
             LET t == Tokens(exp, <<>>)[i] IN
               IF \E j \in DOMAIN arg_dict : arg_dict[j].k = t
               THEN arg_dict[CHOOSE j \in DOMAIN arg_dict : arg_dict[j].k = t].v
               ELSE t])

\* The ids of the parameters the node owns.
OwnedIds == {p.id : p \in {q \in NodeParams : q.function = ""}}

\* The node of the scenario: x = 2, y = 5, a parameter bound to add(a: x,
\* b: y) that the output port names, every function in the registry.
AddScenario ==
  /\ node # None
  /\ The(node).functions = <<>>
  /\ \E p \in NodeParams : p.id = <<"x">> /\ IsConstant(p) /\ p.value = <<"2">>
  /\ \E p \in NodeParams : p.id = <<"y">> /\ IsConstant(p) /\ p.value = <<"5">>
  /\ \E p \in NodeParams : p.function = "add" /\ The(node).output_ports[1].value = p.id
  /\ \A p \in NodeParams : p.function # "" => p.function \in DOMAIN mdf_functions

\* C10: for a node synthesized first, every emitted expression is the
\* whole-token rewrite of its source (ids inside longer identifiers are left
\* alone, whatever the order the ids are visited in), and the add scenario
\* loads and yields 7 whatever other parameters the node owns.
C10_WholeTokenSubstitution ==
  (units = 1 /\ node # None /\ unit.has_body /\ unit.error = "") =>
    /\ \A i \in DOMAIN unit.stmts :
         \A p \in NodeParams :
           (p.id = unit.stmts[i].target /\ p.function \in DOMAIN mdf_functions \cup {""}) =>
             unit.stmts[i].expr =
               IF p.function # ""
               THEN WholeTokenSym(WholeTokenArgs(mdf_functions[p.function].expression_string,
                                                 p.args), OwnedIds)
               ELSE WholeTokenSym(IF p.value # <<>> THEN p.value ELSE p.time_derivative,
                                  OwnedIds)
    /\ unit.ret = WholeTokenSym(The(node).output_ports[1].value, OwnedIds)
    /\ AddScenario =>
         /\ npc # "failed"
         /\ \A i \in DOMAIN hist : hist[i].out = 7

\* ------------------------------------------------- claims C11 .. C13
\* C11: the unit emitted for a node is one the node gives when it is
\* synthesized alone, with fresh bookkeeping, whatever was synthesized before
\* it: ids seen while other nodes were compiled play no part in it.
C11_SameAsCompiledAlone ==
  node # None =>
    \E ids \in Orders(ParamSetAfter({}, The(node))) :
      unit = get_module_declaration_text(The(node), ids)

\* The node's function-bound parameters whose function the registry lacks.
UnknownFunctionParams ==
  {p \in NodeParams : p.function # "" /\ p.function \notin DOMAIN mdf_functions}

\* C12: synthesizing a node with a function-bound parameter whose function
\* is not in the registry fails at synthesis and emits no statement for that
\* parameter (here for a node whose body is synthesized, and whatever name
\* the failure is given).
C12_UnknownFunctionFails ==
  (node # None /\ unit.has_body /\ UnknownFunctionParams # {}) =>
    /\ npc = "failed"
    /\ unit.error # ""
    /\ \A i \in DOMAIN unit.stmts :
         \A p \in UnknownFunctionParams : unit.stmts[i].target # p.id

\* C13: in a forward pass, whenever a node is invoked with the value of a
\* predecessor p, p was invoked before and is not invoked again later in the
\* pass: the value consumed is p's final running value, never its zero
\* start (here for a model of one acyclic, simple graph whose edges were
\* handed over sender first).
C13_PredecessorsComplete ==
  (PassReturned /\ Len(mdf_model) = 1 /\ PlainModel /\ CompiledSenderFirst) =>
    \A i \in DOMAIN invoked :
      invoked[i].pred # None =>
        /\ \E j \in 1..(i - 1) : invoked[j].node = The(invoked[i].pred)
        /\ \A j \in (i + 1)..Len(invoked) : invoked[j].node # The(invoked[i].pred)
====
